---- MODULE Spec2Model ----
(***************************************************************************)
(* Progressive zap-receipt loading of useProgressiveZapReceipts            *)
(* (src/src/hooks/useZapAnalytics.ts) on top of queryWithNip65Fanout       *)
(* (src/src/lib/queryRelays.ts).                                           *)
(*                                                                         *)
(* The hook is a React component function: its state is the useState       *)
(* value, its refs, the pending timers, the fetches whose promise has not  *)
(* resolved yet, and the module-level userZapCache.  Every action below    *)
(* is one JavaScript task (a click, a timer callback, the continuation of  *)
(* an awaited fetch, a change of props) followed by the React commit it    *)
(* causes: the render and the effects of the hook, run until no effect     *)
(* queues a further state update.                                          *)
(*                                                                         *)
(* A model event stands for a burst of Weight(e) receipts that share one   *)
(* created_at and are returned together by the relays, so that array       *)
(* lengths of the order of the batch sizes (250..2000) stay checkable.     *)
(*                                                                         *)
(* Spec follows the hook through changes of subject and window.  SpecLoop  *)
(* follows one subject over more cycles, with the failure path of          *)
(* loadMoreZaps and the auto-load controls.  FanoutSpec follows one call   *)
(* of queryWithNip65Fanout sub-query by sub-query.                         *)
(* SpecConfig follows the hook as useZapAnalytics configures it,           *)
(* WorkerSpec the runs of publish-scheduled-posts.js, PublishSpec the      *)
(* publishToRelay calls of one post, and LookupSpec the chunked lookups of *)
(* useZappedContent and useZapperProfiles.                                 *)
(***************************************************************************)
EXTENDS Integers, Sequences, FiniteSets, TLC

\* ------------------------------------------------------------------ bounds
MaxCycles == 2         \* fetch cycles started in one behaviour
MaxInFlight == 2       \* fetches whose promise is pending at the same time
MaxOrphans == 1        \* pending timers that nothing refers to
MaxSwitches == 3       \* changes of props, cache clears, auto-load controls
MaxLoopCycles == 3     \* fetch cycles started in one behaviour of SpecLoop
MaxRelays == 2         \* NIP-65 relay URLs given to one fan-out
MaxIds == 2            \* distinct event ids the relays answer with in one fan-out
MaxFailures == 4       \* consecutiveFailures up to which a cycle may still fail
MaxRuns == 2           \* invocations of the publishing worker in one behaviour
MaxNow == 6            \* the clock of the publishing worker stops here
MaxLookups == 2        \* executions of a lookup queryFn in one behaviour
MaxMessages == 2       \* messages a relay sends on the WebSocket of one publishToRelay call

\* --------------------------------------------------------- program constants
INITIAL_BATCH_SIZE == 1000
MIN_BATCH_SIZE == 250
MAX_BATCH_SIZE == 2000
MAX_CONSECUTIVE_FAILURES == 3
maxConsecutiveZeroResults == 3
BOUNDARY_TOLERANCE_SECONDS == 3600
EXTEND_TOLERANCE_SECONDS == 14400
CONTINUE_MIN_COUNT == 100

\* ----------------------------------------------------------------- time
Day == 86400
Now == 10000000        \* Math.floor(Date.now() / 1000), frozen

\* ------------------------------------------------------- subjects, receipts
Subjects == {"A", "B"}
\* pubkey when there is neither a targetPubkey nor a current user
NoSubject == "none"

\* The receipts the relays hold.  p: the '#p' tag; n: receipts in the burst.
EventTable ==
  [ a1 |-> [p |-> "A", created_at |-> Now - 1 * Day,        n |-> 300],
    a2 |-> [p |-> "A", created_at |-> Now - 7 * Day + 1800, n |-> 1000],
    a3 |-> [p |-> "A", created_at |-> Now - 10 * Day,       n |-> 3],
    b1 |-> [p |-> "B", created_at |-> Now - 2 * Day,        n |-> 3] ]

Events == DOMAIN EventTable
created_at(e) == EventTable[e].created_at
Weight(e) == EventTable[e].n
P(e) == EventTable[e].p

\* ---------------------------------------------------------------- windows
\* timeRange together with its customRange; "all" is the window without a
\* since bound, "custom" a completed custom range.
TimeRanges == {"7d", "all", "custom"}

\* getDateRange(timeRange, customRange)
getDateRange(tr) ==
  CASE tr = "7d"     -> [since |-> Now - 7 * Day,  until |-> Now]
    [] tr = "all"    -> [since |-> 0,              until |-> Now]
    [] tr = "custom" -> [since |-> Now - 7 * Day,  until |-> Now - 2 * Day]

\* ------------------------------------------------------- sequence helpers
RECURSIVE Count(_)
\* array.length of a receipt array
Count(s) == IF s = << >> THEN 0 ELSE Weight(Head(s)) + Count(Tail(s))

RECURSIVE MinTs(_)
\* Math.min(...arr.map(r => r.created_at)) of a non-empty array
MinTs(s) ==
  IF Len(s) = 1 THEN created_at(s[1])
  ELSE LET m == MinTs(Tail(s))
       IN IF created_at(Head(s)) < m THEN created_at(Head(s)) ELSE m

Min2(a, b) == IF a < b THEN a ELSE b
Max2(a, b) == IF a > b THEN a ELSE b

RECURSIVE InsertDesc(_, _)
\* insert e after every element whose created_at is >= its own (stable)
InsertDesc(s, e) ==
  IF s = << >> THEN << e >>
  ELSE IF created_at(Head(s)) >= created_at(e)
       THEN << Head(s) >> \o InsertDesc(Tail(s), e)
       ELSE << e >> \o s

RECURSIVE SortDesc(_)
\* arr.sort((a, b) => b.created_at - a.created_at), a stable sort
SortDesc(s) ==
  IF s = << >> THEN << >>
  ELSE InsertDesc(SortDesc(SubSeq(s, 1, Len(s) - 1)), s[Len(s)])

RECURSIVE SetToSeq(_)
\* the merged events of a fan-out, in the order the relays happened to
\* answer: here the oldest first
SetToSeq(S) ==
  IF S = {} THEN << >>
  ELSE LET e == CHOOSE x \in S : \A y \in S : created_at(x) <= created_at(y)
       IN << e >> \o SetToSeq(S \ {e})

\* the receipts an array holds
Elems(s) == {s[k] : k \in 1..Len(s)}

\* the filter of the cached receipts by the time range
FilterByRange(all, tr) ==
  LET r == getDateRange(tr)
      isCustomRange == tr = "custom"
      Keep(e) == IF isCustomRange /\ r.until # 0
                 THEN created_at(e) >= r.since /\ created_at(e) <= r.until
                 ELSE created_at(e) >= r.since
  IN SelectSeq(all, Keep)

\* ------------------------------------------------------------------ state
NoTimer == [pubkey |-> "-", tr |-> "-"]
NoOp == [op |-> "none"]

InitialState ==
  [ receipts |-> << >>, isLoading |-> FALSE, isComplete |-> FALSE,
    currentBatch |-> 0, totalFetched |-> 0, relayLimit |-> 0,
    error |-> FALSE, autoLoadEnabled |-> TRUE, consecutiveFailures |-> 0,
    consecutiveZeroResults |-> 0, allReceiptsCache |-> << >> ]

VARIABLES
  pubkey,        \* prop: the subject
  timeRange,     \* prop: the time range (with its custom range)
  shouldQueryData, \* useZapAnalytics: FALSE when its time range is 'custom' and
                 \* not both dates are selected; the hook is then given '7d'
  state,         \* the useState value; stateRef.current equals it between tasks
  userZapCache,  \* module-level Map pubkey -> receipts
  isLoadingRef,  \* isLoadingRef.current
  refTimer,      \* the pending timer autoLoadTimeoutRef.current refers to
  orphans,       \* pending timers no ref refers to any more
  fetches,       \* loadMoreZaps calls suspended at the await
  cycles,        \* history: the number of fetch cycles started so far
  switches,      \* history: prop changes, cache clears, auto-load controls so far
  detected,      \* history: per subject, the limit its last short batch revealed
  preClear,      \* history: the receipts obtained before the last clearZapCaches
                 \* that no query has returned since
  idle,          \* history: how the last automatic cycle ended, when no explicit
                 \* trigger (a call, a click, a change of props) came after it
  last,          \* history: what the last task did
  fanout,        \* one call of queryWithNip65Fanout, followed sub-query by sub-query
  worker,        \* the scheduled_posts table and the runs of the publishing worker
  lookup,        \* the id caches and the running lookups of content and profiles
  publish        \* the publishToRelay calls of one processPost, event by event

hookVars == << pubkey, timeRange, shouldQueryData, state, userZapCache, isLoadingRef, refTimer,
               orphans, fetches, cycles, switches, detected, preClear, idle, last >>

\* what the hook never touches
sideVars == << fanout, worker, lookup, publish >>

vars == << hookVars, sideVars >>

\* the refs, timers and pending fetches a task and its commit work on
World == [ state |-> state, isLoadingRef |-> isLoadingRef, refTimer |-> refTimer,
           orphans |-> orphans, fetches |-> fetches ]

\* autoLoadTimeoutRef.current = setTimeout(...): the timer the ref held
\* before, when still pending, stays pending with nothing referring to it
SetRefTimer(w, cl) ==
  [w EXCEPT !.refTimer = cl,
            !.orphans = IF w.refTimer # NoTimer THEN @ \cup {w.refTimer} ELSE @]

\* setTimeout(...) whose handle is not kept
SetLooseTimer(w, cl) == [w EXCEPT !.orphans = @ \cup {cl}]

\* abortControllerRef.current?.abort()
AbortCurrent(fs) ==
  {IF f.cur THEN [f EXCEPT !.aborted = TRUE] ELSE f : f \in fs}

\* ------------------------------------------------------------- the effects
\* mutant: the time-range effect restarts the pagination
InitFromCacheResetsBatch(prev, pk, tr, cache) ==
  LET userCache == cache[pk]
      filteredReceipts == FilterByRange(userCache, tr)
  IN [prev EXCEPT !.receipts = filteredReceipts,
                  !.allReceiptsCache = userCache,
                  !.totalFetched = Count(filteredReceipts),
                  !.isComplete = Len(userCache) > 0
                                 /\ MinTs(userCache) <= getDateRange(tr).since,
                  !.currentBatch = 0,
                  !.error = FALSE]

\* "Initialize from cache and filter by time range": the update it queues
InitFromCache(prev, pk, tr, cache) ==
  LET userCache == cache[pk]
      since == getDateRange(tr).since
      filteredReceipts == FilterByRange(userCache, tr)
      oldestCachedTimestamp == IF Len(userCache) > 0 THEN MinTs(userCache) ELSE 0
      hasCompleteCoverage == Len(userCache) > 0 /\ oldestCachedTimestamp <= since
  IN IF pk = NoSubject THEN prev ELSE
     [prev EXCEPT !.receipts = filteredReceipts,
                  !.allReceiptsCache = userCache,
                  !.totalFetched = Count(filteredReceipts),
                  !.isComplete = hasCompleteCoverage,
                  !.error = FALSE]

\* mutant: the reset forgets the detected relay limit
ResetStateKeepsLimit == [InitialState EXCEPT !.relayLimit = state.relayLimit]

\* "Reset state when user changes": the state it sets
ResetState == InitialState

\* "Reset state when user changes": what it does to the refs
ResetRefs(w) ==
  [w EXCEPT !.fetches = AbortCurrent(@),
            !.refTimer = NoTimer,
            !.isLoadingRef = FALSE]

\* "Auto-start loading when switching to a time range that needs more data"
\* sref is stateRef.current, pk and tr the props of the render
AutoStartEffect(w, sref, pk, tr, cache) ==
  LET r == getDateRange(tr)
      isCustomRange == tr = "custom"
      userCache == cache[pk]
      oldestCachedTimestamp == IF Len(userCache) > 0 THEN MinTs(userCache) ELSE 0
      cacheCoversCustomRange == Len(userCache) > 0 /\ oldestCachedTimestamp <= r.since
      filteredForCustomRange ==
        SelectSeq(userCache, LAMBDA e : created_at(e) >= r.since /\ created_at(e) <= r.until)
      hasDataForTimeRange ==
        IF isCustomRange THEN Len(filteredForCustomRange) > 0 ELSE Len(sref.receipts) > 0
      isCompleteForThisRange ==
        IF isCustomRange THEN cacheCoversCustomRange ELSE sref.isComplete
      needsMoreData == ~hasDataForTimeRange
                       \/ (hasDataForTimeRange /\ oldestCachedTimestamp > r.since)
      shouldStartLoading == /\ needsMoreData
                            /\ ~sref.isLoading
                            /\ ~isCompleteForThisRange
                            /\ sref.autoLoadEnabled
      cl == [pubkey |-> pk, tr |-> tr]
  IN IF pk = NoSubject THEN w
     ELSE IF isCustomRange /\ cacheCoversCustomRange THEN w
     ELSE IF ~shouldStartLoading THEN w
     ELSE IF isCustomRange THEN SetLooseTimer(w, cl)
     ELSE SetRefTimer(w, cl)

\* the cleanup of the auto-start effect; tr is the time range of the render
\* that ran the effect
AutoStartCleanup(w, tr) ==
  IF tr # "custom" THEN [w EXCEPT !.refTimer = NoTimer] ELSE w

\* "Additional effect to handle time range changes that need extended data"
ExtendRangeEffect(w, sref, pk, tr) ==
  LET since == getDateRange(tr).since
      isCustomRange == tr = "custom"
      all == sref.allReceiptsCache
      oldestCachedTimestamp == IF Len(all) > 0 THEN MinTs(all) ELSE 0
      cacheCoversCustomRange == Len(all) > 0 /\ oldestCachedTimestamp <= since
      withinBoundaryTolerance == oldestCachedTimestamp <= since + EXTEND_TOLERANCE_SECONDS
      needsExtendedData == /\ Len(sref.receipts) > 0
                           /\ oldestCachedTimestamp > since
                           /\ ~withinBoundaryTolerance
                           /\ ~sref.isLoading
                           /\ ~sref.isComplete
                           /\ sref.autoLoadEnabled
                           /\ sref.consecutiveZeroResults < maxConsecutiveZeroResults
  IN IF pk = NoSubject THEN w
     ELSE IF isCustomRange /\ cacheCoversCustomRange THEN w
     ELSE IF needsExtendedData THEN SetRefTimer(w, [pubkey |-> pk, tr |-> tr])
     ELSE w

\* the cleanup of the extend-range effect
ExtendRangeCleanup(w) == [w EXCEPT !.refTimer = NoTimer]

\* A render whose props did not change.  loadMoreZaps is a new function on
\* every render (nip65ReadRelays is a new array each time), so the two
\* effects that depend on it are cleaned up and run again.
Rerender(w, pk, tr, cache) ==
  LET c == ExtendRangeCleanup(AutoStartCleanup(w, tr))
  IN ExtendRangeEffect(AutoStartEffect(c, c.state, pk, tr, cache), c.state, pk, tr)

\* A render with changed props (oldTr: the time range of the render before),
\* then the render that the effects' state updates cause.
RenderProps(w, oldTr, pk, tr, pkChanged, cache) ==
  LET c == ExtendRangeCleanup(AutoStartCleanup(w, oldTr))
      sref == c.state
      queued == InitFromCache(sref, pk, tr, cache)
      r == IF pkChanged THEN ResetRefs(c) ELSE c
      e == ExtendRangeEffect(AutoStartEffect(r, sref, pk, tr, cache), sref, pk, tr)
      next == IF pkChanged THEN ResetState ELSE queued
  IN Rerender([e EXCEPT !.state = next], pk, tr, cache)

\* the first render: every effect runs, nothing is cleaned up
Mount(pk, tr, cache) ==
  LET w0 == [state |-> InitialState, isLoadingRef |-> FALSE, refTimer |-> NoTimer,
             orphans |-> {}, fetches |-> {}]
      e == ExtendRangeEffect(AutoStartEffect(ResetRefs(w0), InitialState, pk, tr, cache),
                             InitialState, pk, tr)
  IN Rerender(e, pk, tr, cache)

Apply(w) ==
  /\ Cardinality(w.orphans) <= MaxOrphans
  /\ state' = w.state
  /\ isLoadingRef' = w.isLoadingRef
  /\ refTimer' = w.refTimer
  /\ orphans' = w.orphans
  /\ fetches' = w.fetches

EmptyCache == [s \in Subjects |-> << >>]

\* ------------------------------------------- publish-scheduled-posts.js
\* The worker is an HTTP handler: every invocation is a run, and nothing
\* keeps two runs from overlapping.  A model row stands for n rows of
\* scheduled_posts that are scheduled together, hold the same payload and
\* targets and meet the same answers of the relays.
BATCH_SIZE == 25
MAX_WORKERS == 5

PostTable ==
  [ p1 |-> [scheduled_for |-> 1, n |-> 20, signed_event |-> "event",
            relays |-> << "r1", "r2" >>],
    p2 |-> [scheduled_for |-> 2, n |-> 3,  signed_event |-> "missing",
            relays |-> << "r1" >>],
    p3 |-> [scheduled_for |-> 3, n |-> 2,  signed_event |-> "event",
            relays |-> << >>],
    p4 |-> [scheduled_for |-> 4, n |-> 1,  signed_event |-> "event",
            relays |-> << "r1" >>],
    p5 |-> [scheduled_for |-> 6, n |-> 1,  signed_event |-> "unparsable",
            relays |-> << "r1" >>] ]

Posts == DOMAIN PostTable
RowCount(p) == PostTable[p].n

\* what comes first on the WebSocket of one publishToRelay call: ["OK", id,
\* true], ["OK", id, false], a close with code 1000 before any OK, or an
\* error, another close code or the RELAY_TIMEOUT
Outcomes == {"ok", "notOk", "closed1000", "error"}

\* publishToRelay(relayURL, event): how its promise settles
publishToRelay(o) ==
  IF o \in {"ok", "closed1000"} THEN "resolved" ELSE "rejected"

\* the answers the relays of a post can give; nothing is sent without a
\* payload
OutcomeSeqs(p) ==
  IF PostTable[p].signed_event = "event"
  THEN [1..Len(PostTable[p].relays) -> Outcomes]
  ELSE {<< >>}

\* processPost(client, post): the status and error_message it writes
processPost(p, outcomes) ==
  LET post == PostTable[p]
      relayUrls == post.relays
      successCount ==
        Cardinality({i \in DOMAIN outcomes : publishToRelay(outcomes[i]) = "resolved"})
      lastError == \E i \in DOMAIN outcomes : publishToRelay(outcomes[i]) = "rejected"
  IN IF post.signed_event = "missing"
     THEN [status |-> "failed", error_message |-> "Signed event is null"]
     ELSE IF post.signed_event = "unparsable"
     THEN [status |-> "failed", error_message |-> "Failed to parse signed event"]
     ELSE IF successCount > 0
     THEN [status |-> "published",
           error_message |-> IF lastError /\ successCount < Len(relayUrls)
                             THEN "Partially published" ELSE "null"]
     ELSE [status |-> "failed", error_message |-> "Failed to publish to any relay"]

RECURSIVE OrderByScheduledFor(_)
\* .order('scheduled_for', { ascending: true })
OrderByScheduledFor(S) ==
  IF S = {} THEN << >>
  ELSE LET p == CHOOSE x \in S :
                  \A y \in S : PostTable[x].scheduled_for <= PostTable[y].scheduled_for
       IN << p >> \o OrderByScheduledFor(S \ {p})

RECURSIVE Limit(_, _)
\* .limit(n): the first n rows (no model row of PostTable is cut by it)
Limit(s, n) ==
  IF s = << >> \/ RowCount(Head(s)) > n THEN << >>
  ELSE << Head(s) >> \o Limit(Tail(s), n - RowCount(Head(s)))

\* the query of the handler at time now on the rows
pendingPosts(rows, now) ==
  Limit(OrderByScheduledFor({p \in Posts : /\ rows[p].status = "pending"
                                           /\ PostTable[p].scheduled_for <= now}),
        BATCH_SIZE)

RECURSIVE RowsBefore(_, _)
\* the number of rows in front of posts[k]
RowsBefore(posts, k) ==
  IF k = 1 THEN 0 ELSE RowsBefore(posts, k - 1) + RowCount(posts[k - 1])

\* processPostsInBatches: the slices of MAX_WORKERS rows posts[k] starts and
\* ends in
FirstSlice(posts, k) == RowsBefore(posts, k) \div MAX_WORKERS
LastSlice(posts, k) == (RowsBefore(posts, k) + RowCount(posts[k]) - 1) \div MAX_WORKERS

NoRun == [st |-> "idle", selected |-> << >>, processed |-> {}]

\* the clock starts when the first three model rows are due
WorkerInit ==
  [ now |-> 3,
    rows |-> [p \in Posts |-> [status |-> "pending", error_message |-> "null"]],
    runs |-> [r \in 1..MaxRuns |-> NoRun],
    last |-> [op |-> "none"] ]

\* time passes
WorkerTick ==
  /\ worker.now < MaxNow
  /\ worker' = [worker EXCEPT !.now = @ + 1, !.last = [op |-> "tick"]]
  /\ UNCHANGED << hookVars, fanout, lookup, publish >>

\* an invocation of the handler up to processPostsInBatches; fetchError: the
\* query of the pending rows fails
HandlerStarts ==
  \E r \in 1..MaxRuns : \E fetchError \in BOOLEAN :
    LET posts == IF fetchError THEN << >> ELSE pendingPosts(worker.rows, worker.now)
    IN /\ worker.runs[r].st = "idle"
       /\ \A q \in 1..(r - 1) : worker.runs[q].st # "idle"
       /\ worker' = [worker EXCEPT
            !.runs[r] = IF posts = << >> THEN [NoRun EXCEPT !.st = "returned"]
                        ELSE [st |-> "active", selected |-> posts, processed |-> {}],
            !.last = [op |-> "select", run |-> r, fetchError |-> fetchError,
                      rows |-> worker.rows, now |-> worker.now]]
       /\ UNCHANGED << hookVars, fanout, lookup, publish >>

\* one processPost of a run, from its call to its status update: the posts
\* of a slice run together, a slice starts when the slice before is settled
ProcessOnePost ==
  \E r \in 1..MaxRuns :
    LET run == worker.runs[r]
    IN /\ run.st = "active"
       /\ \E k \in 1..Len(run.selected) : \E outcomes \in OutcomeSeqs(run.selected[k]) :
            LET p == run.selected[k]
            IN /\ p \notin run.processed
               /\ \A j \in 1..Len(run.selected) :
                    LastSlice(run.selected, j) < FirstSlice(run.selected, k)
                      => run.selected[j] \in run.processed
               /\ worker' = [worker EXCEPT
                    !.rows[p] = processPost(p, outcomes),
                    !.runs[r].processed = @ \cup {p},
                    !.last = [op |-> "process", run |-> r, post |-> p,
                              outcomes |-> outcomes, before |-> worker.rows[p].status]]
       /\ UNCHANGED << hookVars, fanout, lookup, publish >>

\* processPostsInBatches has returned and the handler responds
HandlerReturns ==
  \E r \in 1..MaxRuns :
    /\ worker.runs[r].st = "active"
    /\ worker.runs[r].processed = Elems(worker.runs[r].selected)
    /\ worker' = [worker EXCEPT !.runs[r] = [NoRun EXCEPT !.st = "returned"],
                                !.last = [op |-> "return", run |-> r]]
    /\ UNCHANGED << hookVars, fanout, lookup, publish >>

WorkerNext ==
  \/ WorkerTick
  \/ HandlerStarts
  \/ ProcessOnePost
  \/ HandlerReturns

\* ------------------------------------------------------ publishToRelay
\* The publishToRelay(relayURL, event) calls of one processPost, one for
\* every relay of the post, followed handler by handler.  Of a call, ws is
\* the readyState of its WebSocket, timer the pending RELAY_TIMEOUT, resolved
\* the flag of resolveOnce and rejectOnce; result is how its promise is
\* settled and settles how often resolve() or reject() was called.
\* History: sent (ws.send was called), acked (the relay sent ["OK", id, true]
\* with the id of the event), first (the event that settled the promise),
\* received (the messages the relay sent so far).
relayUrls == PostTable.p1.relays

NoCall ==
  [ ws |-> "none", timer |-> FALSE, resolved |-> FALSE, result |-> "pending",
    settles |-> 0, sent |-> FALSE, acked |-> FALSE, first |-> "none",
    received |-> 0 ]

PublishInit == [i \in DOMAIN relayUrls |-> NoCall]

\* what a relay can send: ["OK", id, true] for the event, ["OK", id, true]
\* with another id, ["OK", id, false, reason], another message (NOTICE,
\* AUTH), and data that JSON.parse rejects
Messages == {"okTrue", "okTrueOtherId", "okFalse", "notice", "unparsable"}
CloseCodes == {1000, 1006}

\* cleanup()
cleanup(p) ==
  [p EXCEPT !.timer = FALSE,
            !.ws = IF @ = "open" THEN "closing" ELSE @]

\* resolveOnce(), called for the event by
resolveOnce(p, by) ==
  IF p.resolved THEN p
  ELSE [cleanup(p) EXCEPT !.resolved = TRUE, !.result = "resolved",
                          !.settles = @ + 1, !.first = by]

\* rejectOnce(error), called for the event by
rejectOnce(p, by) ==
  IF p.resolved THEN p
  ELSE [cleanup(p) EXCEPT !.resolved = TRUE, !.result = "rejected",
                          !.settles = @ + 1, !.first = by]

\* relayUrls.map(...) of processPost: publishToRelay is called for every
\* relay, each call creates its WebSocket and sets its timeout
PublishCall ==
  /\ \A i \in DOMAIN publish : publish[i].ws = "none"
  /\ publish' = [i \in DOMAIN publish |->
                   [publish[i] EXCEPT !.ws = "connecting", !.timer = TRUE]]
  /\ UNCHANGED << hookVars, fanout, worker, lookup >>

\* ws.onopen
OnOpen ==
  \E i \in DOMAIN publish :
    /\ publish[i].ws = "connecting"
    /\ publish' = [publish EXCEPT ![i].ws = "open", ![i].sent = TRUE]
    /\ UNCHANGED << hookVars, fanout, worker, lookup >>

\* ws.onmessage
OnMessage ==
  \E i \in DOMAIN publish : \E m \in Messages :
    LET p == [publish[i] EXCEPT !.received = @ + 1,
                                !.acked = @ \/ m = "okTrue"]
    IN /\ publish[i].ws \in {"open", "closing"}
       /\ publish[i].received < MaxMessages
       /\ publish' = [publish EXCEPT ![i] =
            CASE m \in {"okTrue", "okTrueOtherId"} -> resolveOnce(p, m)
              [] m = "okFalse" -> rejectOnce(p, m)
              [] OTHER -> p]
       /\ UNCHANGED << hookVars, fanout, worker, lookup >>

\* ws.onerror: the connection fails; its close event follows
OnError ==
  \E i \in DOMAIN publish :
    /\ publish[i].ws \in {"connecting", "open"}
    /\ publish' = [publish EXCEPT ![i] =
         [rejectOnce(publish[i], "error") EXCEPT !.ws = "closing"]]
    /\ UNCHANGED << hookVars, fanout, worker, lookup >>

\* ws.onclose with the close code; a connection that was never open does
\* not close with the code of a normal closure
OnClose ==
  \E i \in DOMAIN publish : \E code \in CloseCodes :
    LET p == [publish[i] EXCEPT !.ws = "closed"]
    IN /\ publish[i].ws \in {"connecting", "open", "closing"}
       /\ publish[i].ws = "connecting" => code # 1000
       /\ publish' = [publish EXCEPT ![i] =
            IF ~p.resolved
            THEN IF code = 1000 THEN resolveOnce(p, "close1000")
                 ELSE rejectOnce(p, "closeOther")
            ELSE p]
       /\ UNCHANGED << hookVars, fanout, worker, lookup >>

\* the callback of the RELAY_TIMEOUT timer
OnTimeout ==
  \E i \in DOMAIN publish :
    /\ publish[i].timer
    /\ publish' = [publish EXCEPT ![i] =
         rejectOnce([publish[i] EXCEPT !.timer = FALSE], "timeout")]
    /\ UNCHANGED << hookVars, fanout, worker, lookup >>

PublishNext ==
  \/ PublishCall
  \/ OnOpen
  \/ OnMessage
  \/ OnError
  \/ OnClose
  \/ OnTimeout

\* ------------------------------------------------------- the id lookups
\* The queryFn of useZappedContent (kind "content", ids of zapped events)
\* and of useZapperProfiles (kind "profile", pubkeys).  A model id stands
\* for a block of ids that are looked up and found together; IdCount gives
\* the sizes of the blocks of a kind, in the order of the sorted id list.
Kinds == {"content", "profile"}
chunkSize(kind) == IF kind = "content" THEN 150 ELSE 100
maxConcurrent == 3

IdCount == [content |-> << 150, 150, 150, 100, 50 >>,
            profile |-> << 100, 100, 100, 60, 40 >>]
Ids == 1..5
\* the ids the relays hold an event for (the second block is of ids that no
\* relay knows)
Known == Ids \ {2}

RECURSIVE IdsIn(_, _)
\* the length of a list of ids
IdsIn(kind, s) ==
  IF s = << >> THEN 0 ELSE IdCount[kind][Head(s)] + IdsIn(kind, Tail(s))

\* ids.filter(id => !cache.has(id))
Uncached(ids, cache) == SelectSeq(ids, LAMBDA id : id \notin cache)

RECURSIVE Take(_, _, _)
\* ids.slice(0, n) (no block of IdCount is cut by a slice)
Take(kind, s, n) ==
  IF s = << >> \/ IdCount[kind][Head(s)] > n THEN << >>
  ELSE << Head(s) >> \o Take(kind, Tail(s), n - IdCount[kind][Head(s)])

RECURSIVE Chunks(_, _)
\* for (i = 0; i < uncached.length; i += chunkSize) chunks.push(uncached.slice(i, i + chunkSize))
Chunks(kind, uncached) ==
  IF uncached = << >> THEN << >>
  ELSE LET c == Take(kind, uncached, chunkSize(kind))
       IN << c >> \o Chunks(kind, SubSeq(uncached, Len(c) + 1, Len(uncached)))

\* mutant: every remaining chunk is requested at once
BatchAll(chunks, i) == (i + 1)..Len(chunks)

\* chunks.slice(i, i + maxConcurrent), as indices
Batch(chunks, i) == (i + 1)..Min2(i + maxConcurrent, Len(chunks))

NoLookup == [st |-> "idle", kind |-> "-", eventIds |-> << >>, eventMap |-> {},
             chunks |-> << >>, i |-> 0, inFlight |-> {}, allEvents |-> {}]

\* a queryFn that has returned: its locals are gone
Returned == [NoLookup EXCEPT !.st = "done"]

LookupInit ==
  [ cache |-> [kind \in Kinds |-> {}],
    runs |-> [l \in 1..MaxLookups |-> NoLookup],
    last |-> [op |-> "none"] ]

\* the requests of a batch go out: which of the ids they ask for the cache
\* holds at that moment
Dispatch(kind, chunks, batch, cache) ==
  LET asked == UNION {Elems(chunks[c]) : c \in batch}
  IN [op |-> "dispatch", cached |-> asked \cap cache[kind]]

\* a queryFn starts for the first k blocks of ids, no query with the same
\* queryKey being under way: it reads the cache, and requests the first
\* batch of chunks unless every id is cached
LookupStarts ==
  \E l \in 1..MaxLookups : \E kind \in Kinds : \E k \in Ids :
    LET cache == lookup.cache[kind]
        ids == [j \in 1..k |-> j]
        uncached == Uncached(ids, cache)
        chunks == Chunks(kind, uncached)
    IN /\ lookup.runs[l].st = "idle"
       /\ \A q \in 1..(l - 1) :
            /\ lookup.runs[q].st # "idle"
            /\ ~(lookup.runs[q].kind = kind /\ lookup.runs[q].eventIds = ids)
       /\ lookup' = [lookup EXCEPT
            !.runs[l] = IF uncached = << >> THEN Returned
                        ELSE [st |-> "running", kind |-> kind, eventIds |-> ids,
                              eventMap |-> Elems(ids) \cap cache,
                              chunks |-> chunks, i |-> 0,
                              inFlight |-> Batch(chunks, 0), allEvents |-> {}],
            !.last = Dispatch(kind, chunks, Batch(chunks, 0), lookup.cache)]
       /\ UNCHANGED << hookVars, fanout, worker, publish >>

\* Promise.all of a batch resolves: every processChunk of the batch has
\* settled, with the events the relays hold for its ids or, its query
\* having failed, with []; after the last batch the queryFn stores what it
\* found
BatchSettles ==
  \E l \in 1..MaxLookups :
    LET run == lookup.runs[l]
        more == run.i + maxConcurrent < Len(run.chunks)
    IN /\ run.st = "running"
       /\ \E failed \in SUBSET run.inFlight :
            LET found == UNION {Elems(run.chunks[c]) \cap Known :
                                 c \in run.inFlight \ failed}
                allEvents == run.allEvents \cup found
            IN lookup' = [lookup EXCEPT
                 !.runs[l] = IF more
                             THEN [run EXCEPT !.inFlight = {}, !.st = "delay",
                                              !.allEvents = allEvents]
                             ELSE Returned,
                 !.cache[run.kind] = IF more THEN @ ELSE @ \cup allEvents,
                 !.last = [op |-> "settle"]]
       /\ UNCHANGED << hookVars, fanout, worker, publish >>

\* the delay between two batches is over: the next batch is requested
NextBatch ==
  \E l \in 1..MaxLookups :
    LET run == lookup.runs[l]
        i == run.i + maxConcurrent
    IN /\ run.st = "delay"
       /\ lookup' = [lookup EXCEPT
            !.runs[l].st = "running",
            !.runs[l].i = i,
            !.runs[l].inFlight = Batch(run.chunks, i),
            !.last = Dispatch(run.kind, run.chunks, Batch(run.chunks, i), lookup.cache)]
       /\ UNCHANGED << hookVars, fanout, worker, publish >>


\* the hook mounted for subject pk with time range tr
Mounted(pk, tr) ==
  /\ pubkey = pk
  /\ timeRange = tr
  /\ userZapCache = EmptyCache
  /\ LET w == Mount(pk, tr, EmptyCache)
     IN /\ state = w.state
        /\ isLoadingRef = w.isLoadingRef
        /\ refTimer = w.refTimer
        /\ orphans = w.orphans
        /\ fetches = w.fetches
  /\ cycles = 0
  /\ switches = 0
  /\ detected = [s \in Subjects |-> 0]
  /\ preClear = {}
  /\ idle = "no"
  /\ last = NoOp
  /\ fanout = [st |-> "idle"]
  /\ worker = WorkerInit
  /\ lookup = LookupInit
  /\ publish = PublishInit

Init ==
  /\ shouldQueryData = TRUE
  /\ Mounted("A", "7d")

\* ----------------------------------------------------------- loadMoreZaps
\* mutant: the failure count and autoLoadEnabled stop manual loads too
DroppedAlsoManual(sref, ilr, isAutomatic) ==
  \/ ilr
  \/ sref.isComplete
  \/ ~sref.autoLoadEnabled
  \/ sref.consecutiveFailures >= MAX_CONSECUTIVE_FAILURES
  \/ sref.consecutiveZeroResults >= maxConsecutiveZeroResults

\* mutant: zero-result batches do not stop automatic loading
DroppedNoZeroGuard(sref, ilr, isAutomatic) ==
  \/ ilr
  \/ sref.isComplete
  \/ /\ isAutomatic
     /\ \/ ~sref.autoLoadEnabled
        \/ sref.consecutiveFailures >= MAX_CONSECUTIVE_FAILURES

\* mutant: a completed loading state does not stop a call
DroppedIgnoresComplete(sref, ilr, isAutomatic) ==
  \/ ilr
  \/ /\ isAutomatic
     /\ \/ ~sref.autoLoadEnabled
        \/ sref.consecutiveFailures >= MAX_CONSECUTIVE_FAILURES
        \/ sref.consecutiveZeroResults >= maxConsecutiveZeroResults

\* the guards of loadMoreZaps(isAutomatic): TRUE when the call returns
\* without starting a cycle
Dropped(sref, ilr, isAutomatic) ==
  \/ ilr
  \/ sref.isComplete
  \/ /\ isAutomatic
     /\ \/ ~sref.autoLoadEnabled
        \/ sref.consecutiveFailures >= MAX_CONSECUTIVE_FAILURES
        \/ sref.consecutiveZeroResults >= maxConsecutiveZeroResults

\* the until of the filter
CurrentUntil(sref, tr) ==
  LET until == getDateRange(tr).until
      all == sref.allReceiptsCache
      paginationUntil == MinTs(all) - 1
  IN IF Len(all) > 0
     THEN IF tr = "custom" /\ until # 0 THEN Min2(paginationUntil, until)
          ELSE paginationUntil
     ELSE until

\* mutant: a manual load asks for the initial batch size whatever was detected
BatchSizeIgnoresLimit(sref, isAutomatic) ==
  IF isAutomatic /\ sref.currentBatch > 0
  THEN IF sref.relayLimit # 0 THEN Min2(sref.relayLimit, MAX_BATCH_SIZE) ELSE MIN_BATCH_SIZE
  ELSE INITIAL_BATCH_SIZE

\* mutant: automatic continuation asks for a fixed small batch
BatchSizeAutoSmall(sref, isAutomatic) ==
  IF isAutomatic /\ sref.currentBatch > 0
  THEN CONTINUE_MIN_COUNT
  ELSE Min2(IF sref.relayLimit # 0 THEN sref.relayLimit ELSE INITIAL_BATCH_SIZE,
            MAX_BATCH_SIZE)

\* the limit of the filter
BatchSize(sref, isAutomatic) ==
  LET first == IF sref.relayLimit # 0 THEN sref.relayLimit ELSE INITIAL_BATCH_SIZE
      capped == Min2(first, MAX_BATCH_SIZE)
  IN IF isAutomatic /\ sref.currentBatch > 0
     THEN Min2(capped, IF sref.relayLimit # 0 THEN sref.relayLimit ELSE MIN_BATCH_SIZE)
     ELSE capped

\* loadMoreZaps up to its await, for the closure cl (the props of the render
\* that created the function)
StartCycle(w, cl, isAutomatic) ==
  LET sref == w.state
      f == [pubkey |-> cl.pubkey, tr |-> cl.tr,
            until |-> CurrentUntil(sref, cl.tr),
            limit |-> BatchSize(sref, isAutomatic),
            auto |-> isAutomatic, aborted |-> FALSE, cur |-> TRUE]
  IN [w EXCEPT !.isLoadingRef = TRUE,
               !.state = [@ EXCEPT !.isLoading = TRUE, !.error = FALSE],
               !.fetches = {[g EXCEPT !.cur = FALSE] : g \in AbortCurrent(@)} \cup {f}]

\* mutant: a failed cycle is counted as a batch and empties the view
FailCycleDropsResult(w, isAutomatic) ==
  LET prev == w.state
  IN [w EXCEPT !.isLoadingRef = FALSE,
               !.state = [@ EXCEPT !.isLoading = FALSE,
                                   !.error = TRUE,
                                   !.receipts = << >>,
                                   !.currentBatch = prev.currentBatch + 1,
                                   !.consecutiveFailures = prev.consecutiveFailures + 1,
                                   !.autoLoadEnabled =
                                      prev.consecutiveFailures + 1 < MAX_CONSECUTIVE_FAILURES],
               !.fetches = {[g EXCEPT !.cur = FALSE] : g \in AbortCurrent(@)}]

\* loadMoreZaps when its try block throws before the query is under way:
\* the catch block and the finally block
FailCycle(w, isAutomatic) ==
  LET prev == w.state
  IN [w EXCEPT !.isLoadingRef = FALSE,
               !.state = [@ EXCEPT !.isLoading = FALSE,
                                   !.error = TRUE,
                                   !.consecutiveFailures = prev.consecutiveFailures + 1,
                                   !.autoLoadEnabled =
                                      prev.consecutiveFailures + 1 < MAX_CONSECUTIVE_FAILURES],
               !.fetches = {[g EXCEPT !.cur = FALSE] : g \in AbortCurrent(@)}]

\* a call of loadMoreZaps(isAutomatic) of closure cl on world w, and the
\* render its state update causes; throws: the try block throws
CallLoadMore(w, cl, isAutomatic, throws) ==
  IF Dropped(w.state, w.isLoadingRef, isAutomatic) THEN w
  ELSE IF throws THEN Rerender(FailCycle(w, isAutomatic), pubkey, timeRange, userZapCache)
  ELSE Rerender(StartCycle(w, cl, isAutomatic), pubkey, timeRange, userZapCache)

\* the model starts a cycle only within its bounds
WithinBounds(w, isAutomatic, throws, maxCycles) ==
  \/ Dropped(w.state, w.isLoadingRef, isAutomatic)
  \/ /\ throws
     /\ w.state.consecutiveFailures < MaxFailures
  \/ /\ ~throws
     /\ Cardinality(w.fetches) < MaxInFlight
     /\ cycles < maxCycles

Started(w, isAutomatic, throws) ==
  IF Dropped(w.state, w.isLoadingRef, isAutomatic) \/ throws THEN cycles ELSE cycles + 1

\* what a call of loadMoreZaps did
LoadOp(w, isAutomatic, throws) ==
  LET dropped == Dropped(w.state, w.isLoadingRef, isAutomatic)
  IN [op |-> "load", auto |-> isAutomatic, started |-> ~dropped,
      threw |-> ~dropped /\ throws]

\* one call of loadMoreZaps(isAutomatic) of closure cl as a step of the model
Load(w, cl, isAutomatic, throws, maxCycles) ==
  /\ IF cl.pubkey = NoSubject
     THEN /\ Apply(w)
          /\ last' = [op |-> "load", auto |-> isAutomatic, started |-> FALSE,
                      threw |-> FALSE]
          /\ cycles' = cycles
     ELSE /\ WithinBounds(w, isAutomatic, throws, maxCycles)
          /\ Apply(CallLoadMore(w, cl, isAutomatic, throws))
          /\ last' = LoadOp(w, isAutomatic, throws)
          /\ cycles' = Started(w, isAutomatic, throws)
  /\ idle' = IF isAutomatic THEN idle ELSE "no"
  /\ UNCHANGED << pubkey, timeRange, shouldQueryData, userZapCache, switches,
                  detected, preClear, sideVars >>

\* a click on "load more": manualLoadMore of the current render
ManualLoad(throws, maxCycles) ==
  Load(World, [pubkey |-> pubkey, tr |-> timeRange], FALSE, throws, maxCycles)

\* the timer autoLoadTimeoutRef refers to fires
RefTimerFires(throws, maxCycles) ==
  /\ refTimer # NoTimer
  /\ Load([World EXCEPT !.refTimer = NoTimer], refTimer, TRUE, throws, maxCycles)

\* a timer that nothing refers to fires
OrphanTimerFires(throws, maxCycles) ==
  \E cl \in orphans :
    Load([World EXCEPT !.orphans = @ \ {cl}], cl, TRUE, throws, maxCycles)

ManualLoadMore == ManualLoad(FALSE, MaxCycles)
FireRefTimer == RefTimerFires(FALSE, MaxCycles)
FireOrphanTimer == OrphanTimerFires(FALSE, MaxCycles)

\* ------------------------------------------------- the rest of the cycle
\* what the relays can answer to the filter of f: any part of the matching
\* receipts (each relay holds a part and caps its answer); an aborted
\* query rejects and queryWithNip65Fanout turns that into no events
Answers(f) ==
  IF f.aborted THEN {{}}
  ELSE SUBSET {e \in Events :
                 /\ P(e) = f.pubkey
                 /\ created_at(e) <= f.until
                 /\ created_at(e) >= getDateRange(f.tr).since}

\* whether every sub-query of the fan-out rejected (a query error, the abort,
\* the timeout of the signal): possible only when no event comes back, and
\* what happens to every sub-query of an aborted fetch
AllRejected(f, S) ==
  IF f.aborted THEN {TRUE} ELSE IF S = {} THEN BOOLEAN ELSE {FALSE}

\* mutant: the detected limit is not raised to MIN_BATCH_SIZE
DetectedLimitNoFloor(prev, f, k) ==
  IF k < f.limit /\ k > 0 THEN k ELSE prev.relayLimit

\* mutant: a batch that is not short makes the limit unknown again
DetectedLimitForgets(prev, f, k) ==
  IF k < f.limit /\ k > 0 THEN Max2(k, MIN_BATCH_SIZE) ELSE 0

\* "Detect relay limit based on batch results"
DetectedLimit(prev, f, k) ==
  IF k < f.limit /\ k > 0 THEN Max2(k, MIN_BATCH_SIZE) ELSE prev.relayLimit

\* mutant: an empty batch never completes
IsCompleteEmptyNever(f, validReceipts, detectedLimit) ==
  LET k == Count(validReceipts)
      since == getDateRange(f.tr).since
      expectedBatchSize == IF detectedLimit # 0 THEN detectedLimit ELSE f.limit
  IN IF k = 0 THEN FALSE
     ELSE \/ k < expectedBatchSize
          \/ /\ f.tr # "custom"
             /\ MinTs(validReceipts) <= since + BOUNDARY_TOLERANCE_SECONDS

\* mutant: the boundary tolerance is applied to custom ranges too
IsCompleteToleranceAlways(f, validReceipts, detectedLimit) ==
  LET k == Count(validReceipts)
      since == getDateRange(f.tr).since
      expectedBatchSize == IF detectedLimit # 0 THEN detectedLimit ELSE f.limit
  IN IF k = 0 THEN since # 0
     ELSE \/ k < expectedBatchSize
          \/ MinTs(validReceipts) <= since + BOUNDARY_TOLERANCE_SECONDS

\* mutant: a short batch does not complete the loading
IsCompleteBoundaryOnly(f, validReceipts, detectedLimit) ==
  LET k == Count(validReceipts)
      since == getDateRange(f.tr).since
  IN IF k = 0 THEN since # 0
     ELSE /\ f.tr # "custom"
          /\ MinTs(validReceipts) <= since + BOUNDARY_TOLERANCE_SECONDS

\* "Determine if loading is complete"
IsComplete(f, validReceipts, detectedLimit) ==
  LET k == Count(validReceipts)
      since == getDateRange(f.tr).since
      expectedBatchSize == IF detectedLimit # 0 THEN detectedLimit ELSE f.limit
  IN IF k = 0 THEN since # 0
     ELSE \/ k < expectedBatchSize
          \/ /\ f.tr # "custom"
             /\ MinTs(validReceipts) <= since + BOUNDARY_TOLERANCE_SECONDS

\* mutant: the merge appends the batch without sorting
MergeReceiptsAppends(cached, validReceipts) == cached \o validReceipts

\* [...prev.allReceiptsCache, ...validReceipts].sort(...)
MergeReceipts(cached, validReceipts) == SortDesc(cached \o validReceipts)

\* mutant: totalFetched counts every cached receipt, in the window or not
MergeBatchCountsAll(prev, f, validReceipts) ==
  LET allReceipts == MergeReceipts(prev.allReceiptsCache, validReceipts)
      filteredReceipts == FilterByRange(allReceipts, f.tr)
      k == Count(validReceipts)
      detectedLimit == DetectedLimit(prev, f, k)
      isComplete == IsComplete(f, validReceipts, detectedLimit)
  IN [prev EXCEPT !.receipts = filteredReceipts,
                  !.allReceiptsCache = allReceipts,
                  !.isLoading = FALSE,
                  !.isComplete = isComplete,
                  !.currentBatch = @ + 1,
                  !.totalFetched = Count(allReceipts),
                  !.relayLimit = detectedLimit,
                  !.consecutiveFailures = 0,
                  !.consecutiveZeroResults = IF k = 0 THEN @ + 1 ELSE 0]

\* the update of setState(prev => ...) after the await
MergeBatch(prev, f, validReceipts) ==
  LET allReceipts == MergeReceipts(prev.allReceiptsCache, validReceipts)
      filteredReceipts == FilterByRange(allReceipts, f.tr)
      k == Count(validReceipts)
      detectedLimit == DetectedLimit(prev, f, k)
      isComplete == IsComplete(f, validReceipts, detectedLimit)
  IN [prev EXCEPT !.receipts = filteredReceipts,
                  !.allReceiptsCache = allReceipts,
                  !.isLoading = FALSE,
                  !.isComplete = isComplete,
                  !.currentBatch = @ + 1,
                  !.totalFetched = Count(filteredReceipts),
                  !.relayLimit = detectedLimit,
                  !.consecutiveFailures = 0,
                  !.consecutiveZeroResults = IF k = 0 THEN @ + 1 ELSE 0]

\* "Schedule next automatic batch if appropriate"
shouldContinueAutoLoad(f, k) ==
  /\ k > 0
  /\ \/ k * 10 >= f.limit * 9
     \/ k >= CONTINUE_MIN_COUNT

\* how the batch of k receipts of cycle f ended, for the history
Yield(f, k) ==
  IF k > 0 THEN IF shouldContinueAutoLoad(f, k) THEN "no" ELSE "small"
  ELSE IF getDateRange(f.tr).since # 0 THEN "emptySince" ELSE "emptyNoSince"

\* events.filter(isValidZapReceipt).sort((a, b) => b.created_at - a.created_at)
ValidReceipts(S) == SortDesc(SetToSeq(S))

\* loadMoreZaps after its await: the fan-out of f resolved with events S;
\* rejected: every sub-query of the fan-out rejected
Resolve(f, S, rejected) ==
  LET validReceipts == ValidReceipts(S)
      k == Count(validReceipts)
      merged == MergeBatch(state, f, validReceipts)
      cache == [userZapCache EXCEPT ![f.pubkey] = merged.allReceiptsCache]
      w1 == [World EXCEPT !.state = merged, !.fetches = @ \ {f}]
      w2 == IF f.auto /\ shouldContinueAutoLoad(f, k)
            THEN SetRefTimer(w1, [pubkey |-> f.pubkey, tr |-> f.tr])
            ELSE w1
      w3 == [w2 EXCEPT !.isLoadingRef = FALSE]
  IN /\ userZapCache' = cache
     /\ Apply(Rerender(w3, pubkey, timeRange, cache))
     /\ last' = [op |-> "resolve", f |-> f, events |-> S, rejected |-> rejected]
     /\ detected' = IF 0 < k /\ k < f.limit
                     THEN [detected EXCEPT ![f.pubkey] = Max2(k, MIN_BATCH_SIZE)]
                     ELSE detected
     /\ preClear' = preClear \ S
     /\ idle' = IF f.auto THEN Yield(f, k) ELSE "no"
     /\ UNCHANGED << pubkey, timeRange, shouldQueryData, cycles, switches, sideVars >>

FetchResolves ==
  \E f \in fetches : \E S \in Answers(f) : \E rejected \in AllRejected(f, S) :
    Resolve(f, S, rejected)

\* ------------------------------------------------------------ props, cache
\* the caller renders the hook with another time range
SwitchTimeRange ==
  \E tr \in TimeRanges \ {timeRange} :
    /\ switches < MaxSwitches
    /\ switches' = switches + 1
    /\ timeRange' = tr
    /\ Apply(RenderProps(World, timeRange, pubkey, tr, FALSE, userZapCache))
    /\ last' = [op |-> "range"]
    /\ idle' = "no"
    /\ UNCHANGED << pubkey, shouldQueryData, userZapCache, cycles, detected, preClear,
                    sideVars >>

\* the caller renders the hook with another subject
SwitchSubject ==
  \E pk \in Subjects \ {pubkey} :
    /\ switches < MaxSwitches
    /\ switches' = switches + 1
    /\ pubkey' = pk
    /\ Apply(RenderProps(World, timeRange, pk, timeRange, TRUE, userZapCache))
    /\ last' = [op |-> "subject"]
    /\ idle' = "no"
    /\ UNCHANGED << timeRange, shouldQueryData, userZapCache, cycles, detected, preClear,
                    sideVars >>

\* the receipts the cache and the hook hold
Obtained ==
  UNION {Elems(userZapCache[s]) : s \in Subjects}
    \cup Elems(state.allReceiptsCache) \cup Elems(state.receipts)

\* clearZapCaches()
ClearZapCaches ==
  /\ switches < MaxSwitches
  /\ switches' = switches + 1
  /\ userZapCache' = EmptyCache
  /\ lookup' = [lookup EXCEPT !.cache.profile = {}]
  /\ preClear' = preClear \cup Obtained
  /\ last' = [op |-> "clear"]
  /\ idle' = "no"
  /\ UNCHANGED << pubkey, timeRange, shouldQueryData, state, isLoadingRef, refTimer,
                  orphans, fetches, cycles, detected, fanout, worker, publish >>

\* ------------------------------------------------------ auto-load controls
\* toggleAutoLoad()
ToggleAutoLoad ==
  /\ switches < MaxSwitches
  /\ switches' = switches + 1
  /\ LET w == [World EXCEPT !.state.autoLoadEnabled = ~state.autoLoadEnabled]
     IN Apply(Rerender(w, pubkey, timeRange, userZapCache))
  /\ last' = [op |-> "toggle"]
  /\ idle' = "no"
  /\ UNCHANGED << pubkey, timeRange, shouldQueryData, userZapCache, cycles, detected,
                  preClear, sideVars >>

\* restartAutoLoad()
RestartAutoLoad ==
  /\ switches < MaxSwitches
  /\ switches' = switches + 1
  /\ LET currentState == state
         w1 == [World EXCEPT !.state.autoLoadEnabled = TRUE,
                             !.state.consecutiveFailures = 0,
                             !.state.consecutiveZeroResults = 0]
         w2 == IF ~currentState.isLoading /\ ~currentState.isComplete
               THEN SetRefTimer(w1, [pubkey |-> pubkey, tr |-> timeRange])
               ELSE w1
     IN Apply(Rerender(w2, pubkey, timeRange, userZapCache))
  /\ last' = [op |-> "restart"]
  /\ idle' = "no"
  /\ UNCHANGED << pubkey, timeRange, shouldQueryData, userZapCache, cycles, detected,
                  preClear, sideVars >>

Next ==
  \/ ManualLoadMore
  \/ FireRefTimer
  \/ FireOrphanTimer
  \/ FetchResolves
  \/ SwitchTimeRange
  \/ SwitchSubject
  \/ ClearZapCaches

Spec == Init /\ [][Next]_vars

\* ------------------------------------------------ the loop of one caller
\* The same hook with the failure path of loadMoreZaps and the auto-load
\* controls, followed over more cycles.
LoopManualLoad == \E throws \in BOOLEAN : ManualLoad(throws, MaxLoopCycles)
LoopRefTimer == \E throws \in BOOLEAN : RefTimerFires(throws, MaxLoopCycles)
LoopOrphanTimer == \E throws \in BOOLEAN : OrphanTimerFires(throws, MaxLoopCycles)

NextLoop ==
  \/ LoopManualLoad
  \/ LoopRefTimer
  \/ LoopOrphanTimer
  \/ FetchResolves
  \/ SwitchTimeRange
  \/ ToggleAutoLoad
  \/ RestartAutoLoad

SpecLoop == Init /\ [][NextLoop]_vars

\* ------------------------------------------------------ useZapAnalytics
\* useZapAnalytics(timeRange, customRange, targetPubkey) around the hook:
\* mounted without a subject or with one, with a preset range, a completed
\* custom range or a custom range for which not both dates are selected.
\* the time range useProgressiveZapReceipts is given
GivenRange(tr, complete) == IF complete THEN tr ELSE "7d"

InitConfig ==
  \E pk \in {"A", NoSubject} : \E tr \in TimeRanges : \E complete \in BOOLEAN :
    /\ (tr = "custom" \/ complete)
    /\ shouldQueryData = complete
    /\ Mounted(pk, GivenRange(tr, complete))

\* the caller selects another time range or other dates of the custom range
SelectRange ==
  \E tr \in TimeRanges : \E complete \in BOOLEAN :
    LET given == GivenRange(tr, complete)
    IN /\ (tr = "custom" \/ complete)
       /\ << given, complete >> # << timeRange, shouldQueryData >>
       /\ switches < MaxSwitches
       /\ switches' = switches + 1
       /\ timeRange' = given
       /\ shouldQueryData' = complete
       /\ IF given # timeRange
          THEN Apply(RenderProps(World, timeRange, pubkey, given, FALSE, userZapCache))
          ELSE Apply(Rerender(World, pubkey, timeRange, userZapCache))
       /\ last' = [op |-> "select"]
       /\ idle' = "no"
       /\ UNCHANGED << pubkey, userZapCache, cycles, detected, preClear, sideVars >>

NextConfig ==
  \/ ManualLoadMore
  \/ FireRefTimer
  \/ FireOrphanTimer
  \/ FetchResolves
  \/ SelectRange

SpecConfig == InitConfig /\ [][NextConfig]_vars

\* ------------------------------------------------- queryWithNip65Fanout
\* One call of queryWithNip65Fanout(nostr, filters, nip65RelayUrls, signal):
\* sub-query 1 is nostr.query of the relay pool, sub-query i + 1 the query of
\* nip65RelayUrls[i].  A record an answer holds is its id and the sub-query it
\* came from, so that copies of one id can be told apart.
EventIds == 1..MaxIds
Signals == {"batchSignal", "otherSignal"}

RECURSIVE Orderings(_)
\* the sequences that hold every element of S once
Orderings(S) ==
  IF S = {} THEN {<< >>}
  ELSE UNION {{<< x >> \o s : s \in Orderings(S \ {x})} : x \in S}

\* what one relay can answer: some of the ids, in some order
RelayAnswers == UNION {Orderings(T) : T \in SUBSET EventIds}

\* the events of the answer ids of sub-query i
Tagged(ids, i) == [k \in 1..Len(ids) |-> [id |-> ids[k], from |-> i]]

\* nostr.query(filters, { signal }) and relay.query(filters, { signal })
Query(signal) ==
  [st |-> "pending", issued |-> TRUE, signal |-> signal, value |-> << >>]

\* Promise.resolve([]) of the catch around nostr.relay(url)
ResolvedEmpty ==
  [st |-> "fulfilled", issued |-> FALSE, signal |-> "-", value |-> << >>]

\* the array handed to Promise.allSettled; throwing: the indices of the urls
\* for which nostr.relay(url) or relay.query throws
SubQueries(n, signal, throwing) ==
  [i \in 1..(n + 1) |->
     IF i > 1 /\ (i - 1) \in throwing THEN ResolvedEmpty ELSE Query(signal)]

\* mutant: the promise is settled as soon as one sub-query is
AnySettled(subs) == \E i \in DOMAIN subs : subs[i].st # "pending"

\* Promise.allSettled is settled
AllSettled(subs) == \A i \in DOMAIN subs : subs[i].st # "pending"

RECURSIVE FlatMapFulfilled(_)
\* results.filter(r => r.status === 'fulfilled').flatMap(r => r.value)
FlatMapFulfilled(subs) ==
  IF subs = << >> THEN << >>
  ELSE (IF Head(subs).st = "fulfilled" THEN Head(subs).value ELSE << >>)
         \o FlatMapFulfilled(Tail(subs))

RECURSIVE KeysInOrder(_)
\* the keys of new Map(allEvents.map(e => [e.id, e])), in insertion order
KeysInOrder(all) ==
  IF all = << >> THEN << >>
  ELSE LET front == KeysInOrder(SubSeq(all, 1, Len(all) - 1))
           id == all[Len(all)].id
       IN IF \E k \in 1..Len(front) : front[k] = id THEN front ELSE Append(front, id)

\* mutant: the first copy of an id is kept
DedupKeepFirst(all) ==
  LET keys == KeysInOrder(all)
      First(id) == all[CHOOSE k \in 1..Len(all) :
                         /\ all[k].id = id
                         /\ \A j \in 1..Len(all) : all[j].id = id => j >= k]
  IN [k \in 1..Len(keys) |-> First(keys[k])]

\* Array.from(new Map(allEvents.map(e => [e.id, e])).values()): a later
\* entry of a key replaces the value and keeps the place of the key
DedupById(all) ==
  LET keys == KeysInOrder(all)
      Latest(id) == all[CHOOSE k \in 1..Len(all) :
                          /\ all[k].id = id
                          /\ \A j \in 1..Len(all) : all[j].id = id => j <= k]
  IN [k \in 1..Len(keys) |-> Latest(keys[k])]

\* mutant: Promise.all in the place of Promise.allSettled
SettleAsPromiseAll(subs) ==
  IF \E i \in DOMAIN subs : subs[i].st = "rejected"
  THEN [st |-> "rejected", result |-> << >>]
  ELSE [st |-> "returned", result |-> DedupById(FlatMapFulfilled(subs))]

\* the outcome of the call once the awaited promise is settled
Settle(subs) ==
  [st |-> "returned", result |-> DedupById(FlatMapFulfilled(subs))]

\* queryWithNip65Fanout is called with n relay urls
FanoutCall ==
  /\ fanout.st = "idle"
  /\ \E n \in 0..MaxRelays : \E signal \in Signals : \E throwing \in SUBSET (1..n) :
       fanout' = [st |-> "pending", signal |-> signal, urls |-> n,
                  subs |-> SubQueries(n, signal, throwing), result |-> << >>]
  /\ UNCHANGED << hookVars, worker, lookup, publish >>

\* a relay answers
SubQueryFulfils ==
  /\ fanout.st = "pending"
  /\ \E i \in DOMAIN fanout.subs : \E ids \in RelayAnswers :
       /\ fanout.subs[i].st = "pending"
       /\ fanout' = [fanout EXCEPT !.subs[i].st = "fulfilled",
                                   !.subs[i].value = Tagged(ids, i)]
  /\ UNCHANGED << hookVars, worker, lookup, publish >>

\* a query fails: an error of the relay, the abort or the timeout of the signal
SubQueryRejects ==
  /\ fanout.st = "pending"
  /\ \E i \in DOMAIN fanout.subs :
       /\ fanout.subs[i].st = "pending"
       /\ fanout' = [fanout EXCEPT !.subs[i].st = "rejected"]
  /\ UNCHANGED << hookVars, worker, lookup, publish >>

\* the await of Promise.allSettled resumes and the function returns
FanoutReturns ==
  /\ fanout.st = "pending"
  /\ AllSettled(fanout.subs)
  /\ fanout' = [fanout EXCEPT !.st = Settle(fanout.subs).st,
                              !.result = Settle(fanout.subs).result]
  /\ UNCHANGED << hookVars, worker, lookup, publish >>

FanoutNext ==
  \/ FanoutCall
  \/ SubQueryFulfils
  \/ SubQueryRejects
  \/ FanoutReturns

FanoutSpec == Init /\ [][FanoutNext]_vars

WorkerSpec == Init /\ [][WorkerNext]_vars

\* the lookups of a page on which clearZapCaches is not called
LookupNext ==
  \/ LookupStarts
  \/ BatchSettles
  \/ NextBatch

LookupSpec == Init /\ [][LookupNext]_vars

PublishSpec == Init /\ [][PublishNext]_vars

\* ================================================================ claims
NoDuplicates(s) == \A i, j \in 1..Len(s) : s[i] = s[j] => i = j
TheCycle == last.f
\* the cycle the last task completed
Completed == last.op = "resolve"
ReturnedCount == Count(SetToSeq(last.events))

\* C1: after any sequence of successful fetch cycles, the cache entry of
\* every subject (userZapCache) and allReceiptsCache hold each receipt id
\* at most once.
C1_EachIdOnce ==
  /\ \A s \in Subjects : NoDuplicates(userZapCache[s])
  /\ NoDuplicates(state.allReceiptsCache)

\* C2: a merge never shrinks the cache entry of any subject: the step that
\* completes a fetch cycle leaves every entry at least as large as before.
C2_MergeNeverShrinks ==
  [][last'.op = "resolve" =>
       \A s \in Subjects : Count(userZapCache'[s]) >= Count(userZapCache[s])]_vars

\* C3: for one subject there are never two fetches whose promise is pending.
C3_OneInFlightPerSubject ==
  \A f, g \in fetches : f.pubkey = g.pubkey => f = g

\* C4: after a switch of subject nothing works for the previous subject any
\* more: its pending fetch has been aborted, and no timer set before the
\* switch starts a fetch for it, so every pending fetch of a subject that is
\* not the active one is an aborted one.
C4_SwitchCancelsAll ==
  \A f \in fetches : f.pubkey # pubkey => f.aborted

\* C5: the step that changes the subject sets the whole loading state to its
\* initial value and leaves every cache entry as it was.
C5_SubjectSwitchResets ==
  [][pubkey' # pubkey => /\ state' = InitialState
                         /\ userZapCache' = userZapCache]_vars

\* C5 witness: the subject was switched away from one with cached receipts
\* and loop progress
C5_Witness ==
  /\ last.op = "subject"
  /\ pubkey = "B"
  /\ state = InitialState
  /\ userZapCache["A"] # << >>

\* C6: a cycle started for a subject whose cache entry is not empty asks for
\* until = min(until of the window, oldest cached created_at - 1).
C6_UntilBelowCache ==
  [][cycles' = cycles + 1 =>
       \A f \in fetches' :
         (f.cur /\ userZapCache[f.pubkey] # << >>) =>
           f.until = Min2(getDateRange(f.tr).until,
                          MinTs(userZapCache[f.pubkey]) - 1)]_vars

\* C7: the step that changes the time range leaves currentBatch, relayLimit,
\* both counters, autoLoadEnabled, isLoading and every cache entry as they
\* were.
C7_RangeSwitchKeepsProgress ==
  [][timeRange' # timeRange =>
       /\ state'.currentBatch = state.currentBatch
       /\ state'.relayLimit = state.relayLimit
       /\ state'.consecutiveFailures = state.consecutiveFailures
       /\ state'.consecutiveZeroResults = state.consecutiveZeroResults
       /\ state'.autoLoadEnabled = state.autoLoadEnabled
       /\ state'.isLoading = state.isLoading
       /\ userZapCache' = userZapCache]_vars

\* C7 witness: the range was switched after a batch that detected a limit
C7_Witness ==
  /\ last.op = "range"
  /\ state.currentBatch > 0
  /\ state.relayLimit # 0
  /\ state.receipts # << >>

\* C8 as stated: a cycle that returns 0 < K < requested batch size leaves
\* isComplete true.
C8_ShortBatchCompletes ==
  (Completed /\ 0 < ReturnedCount /\ ReturnedCount < TheCycle.limit)
    => state.isComplete

\* C8 amended: a cycle that returns 0 < K < requested batch size leaves
\* isComplete true exactly when K < MIN_BATCH_SIZE or, for a window that is
\* not custom, the oldest returned receipt is within the tolerance of since.
C8_ShortBatchCompletesBelowMin ==
  (Completed /\ 0 < ReturnedCount /\ ReturnedCount < TheCycle.limit)
    => (state.isComplete <=>
          \/ ReturnedCount < MIN_BATCH_SIZE
          \/ /\ TheCycle.tr # "custom"
             /\ \E e \in last.events :
                  created_at(e) <= getDateRange(TheCycle.tr).since
                                     + BOUNDARY_TOLERANCE_SECONDS)

\* C8 witness: a short batch below MIN_BATCH_SIZE, far from the boundary,
\* on a state that had detected a limit before
C8_Witness ==
  /\ Completed
  /\ last.events = {"a3"}
  /\ TheCycle.limit < INITIAL_BATCH_SIZE
  /\ state.isComplete

\* C9: a cycle that returns no receipt leaves isComplete true when the
\* window it was started for has a since bound, and false when it has none.
C9_EmptyBatch ==
  (Completed /\ ReturnedCount = 0)
    => (state.isComplete <=> getDateRange(TheCycle.tr).since # 0)

\* C9 witness: an empty answer to a query that was not aborted, without a
\* since bound
C9_Witness ==
  /\ Completed
  /\ last.events = {}
  /\ ~TheCycle.aborted
  /\ TheCycle.tr = "all"
  /\ ~state.isComplete

\* C10: a cycle that returns K > 0 receipts leaves isComplete true exactly
\* when K < the effective batch size (the detected limit if there is one,
\* the requested size otherwise) or, for a window that is not custom, the
\* oldest returned receipt is at most since + 3600.
C10_CompletionRule ==
  (Completed /\ ReturnedCount > 0)
    => (state.isComplete <=>
          \/ ReturnedCount < (IF state.relayLimit # 0 THEN state.relayLimit
                              ELSE TheCycle.limit)
          \/ /\ TheCycle.tr # "custom"
             /\ \E e \in last.events :
                  created_at(e) <= getDateRange(TheCycle.tr).since
                                     + BOUNDARY_TOLERANCE_SECONDS)

\* C10 witness: a full batch of a custom window whose oldest receipt is
\* within an hour of since does not complete
C10_Witness ==
  /\ Completed
  /\ TheCycle.tr = "custom"
  /\ last.events = {"a2"}
  /\ ~state.isComplete

\* the cycle a step starts, if it starts one
StartsCycle(f) == cycles' = cycles + 1 /\ f \in fetches' /\ f.cur

\* C11 as stated: once a short batch has revealed a limit for a subject, no
\* later cycle for that subject asks for more than that limit.
C11_LimitBoundsSubject ==
  [][\A f \in fetches' :
       (StartsCycle(f) /\ detected[f.pubkey] # 0) => f.limit <= detected[f.pubkey]]_vars

\* C11 amended: a cycle that returns 0 < K < requested leaves the detected
\* limit at max(K, MIN_BATCH_SIZE), and a cycle started while the loading
\* state holds a detected limit asks for at most that limit (a switch of
\* subject discards the limit with the loading state).
C11_LimitBoundsLoadingState ==
  [][/\ (last'.op = "resolve" /\ 0 < ReturnedCount' /\ ReturnedCount' < TheCycle'.limit)
         => state'.relayLimit = Max2(ReturnedCount', MIN_BATCH_SIZE)
     /\ \A f \in fetches' :
          (StartsCycle(f) /\ state.relayLimit # 0) => f.limit <= state.relayLimit]_vars

\* C11 witness: a cycle was started with the limit the batch before revealed
C11_Witness ==
  /\ last.op = "load"
  /\ last.started
  /\ state.relayLimit = 300
  /\ \E f \in fetches : f.cur /\ ~f.aborted /\ f.limit = 300

\* C12: every fetch cycle, manual or automatic, asks for a batch size
\* between MIN_BATCH_SIZE and MAX_BATCH_SIZE.
C12_BatchSizeWithinBounds ==
  \A f \in fetches : MIN_BATCH_SIZE <= f.limit /\ f.limit <= MAX_BATCH_SIZE

\* C12 witness: an automatic continuation without a detected limit asks for
\* the smallest batch
C12_Witness ==
  \E f \in fetches :
    /\ f.auto /\ ~f.aborted
    /\ f.limit = MIN_BATCH_SIZE
    /\ state.currentBatch > 0
    /\ state.relayLimit = 0

\* a step that is one call of loadMoreZaps
ManualCall == last'.op = "load" /\ ~last'.auto
AutomaticCall == last'.op = "load" /\ last'.auto

C14_AllSourcesFailIsFailure ==
  [][(last'.op = "resolve" /\ last'.rejected /\ ~last'.f.aborted)
       => /\ state'.consecutiveFailures = state.consecutiveFailures + 1
          /\ state'.error
          /\ state'.isComplete = state.isComplete
          /\ state'.currentBatch = state.currentBatch]_vars

\* C15: a cycle that returns nothing adds one to consecutiveZeroResults, a
\* cycle that returns receipts sets it to 0, and no automatic call starts a
\* cycle once it has reached 3: against a source that returns nothing, at
\* most 3 automatic fetches follow one another.
C15_ZeroResultsStopAutoLoad ==
  [][/\ last'.op = "resolve"
         => state'.consecutiveZeroResults =
              IF ReturnedCount' = 0 THEN state.consecutiveZeroResults + 1 ELSE 0
     /\ (AutomaticCall /\ last'.started)
         => state.consecutiveZeroResults < maxConsecutiveZeroResults]_vars

\* C15 witness: in the window without a since bound, after three empty
\* batches, an automatic call found nothing else in its way and was dropped
C15_Witness ==
  /\ last = [op |-> "load", auto |-> TRUE, started |-> FALSE, threw |-> FALSE]
  /\ timeRange = "all"
  /\ state.consecutiveZeroResults = maxConsecutiveZeroResults
  /\ state.currentBatch = maxConsecutiveZeroResults
  /\ ~state.isComplete /\ ~isLoadingRef
  /\ state.autoLoadEnabled
  /\ state.consecutiveFailures = 0

\* C16 as stated: once an automatic cycle has returned a batch that was
\* empty or neither 90% of the requested size nor 100 receipts, no automatic
\* call starts a cycle before the next explicit trigger.
C16_ContinuesOnlyIfSubstantial ==
  [][(AutomaticCall /\ last'.started) => idle = "no"]_vars

\* C16 amended: once an automatic cycle has returned a batch of 0 < K
\* receipts that was neither 90% of the requested size nor 100 receipts, or
\* an empty batch in a window with a since bound, no automatic call starts
\* a cycle before the next explicit trigger; after an empty batch in the
\* window without a since bound automatic calls may go on.
C16_ContinuesIfSubstantialOrEmpty ==
  [][(AutomaticCall /\ last'.started) => idle \in {"no", "emptyNoSince"}]_vars

\* C16 witness: an automatic cycle returned a batch that was neither 90% of
\* the requested size nor 100 receipts, and no timer is pending
C16_Witness ==
  /\ last.op = "resolve"
  /\ TheCycle.auto /\ ~TheCycle.aborted
  /\ last.events = {"a3"}
  /\ idle = "small"
  /\ refTimer = NoTimer /\ orphans = {}
  /\ timeRange = "all"

\* the coverage the window still lacks, for the subject and window of the
\* render: nothing to show, nothing cached, or the oldest cached receipt is
\* younger than since
NotCovered ==
  \/ state.receipts = << >>
  \/ userZapCache[pubkey] = << >>
  \/ MinTs(userZapCache[pubkey]) > getDateRange(timeRange).since

\* C17 as stated: an automatic call starts a cycle only when the cache does
\* not cover the window yet, autoLoadEnabled is true and isComplete is false.
C17_AutoStartNeedsCoverageGap ==
  [][(AutomaticCall /\ last'.started)
       => /\ NotCovered
          /\ state.autoLoadEnabled
          /\ ~state.isComplete]_vars

\* C17: no automatic call starts a cycle while autoLoadEnabled is false or
\* isComplete is true.
C17_AutoStartGuarded ==
  [][(AutomaticCall /\ last'.started)
       => (state.autoLoadEnabled /\ ~state.isComplete)]_vars

\* the ids the fulfilled sub-queries of the call answered with
FulfilledIds ==
  LET all == FlatMapFulfilled(fanout.subs)
  IN {all[k].id : k \in 1..Len(all)}
\* the ids of the events the call returned
ResultIds == {fanout.result[k].id : k \in 1..Len(fanout.result)}
\* the sub-queries of the call in a given state
SubsIn(st) == {i \in DOMAIN fanout.subs : fanout.subs[i].st = st}

\* C18: queryWithNip65Fanout never rejects, whichever sub-queries reject or
\* cannot be opened, and what it returns holds exactly the ids the other
\* sub-queries answered with: nothing when all of them failed.
C18_PartialResultsAreSuccess ==
  /\ fanout.st # "rejected"
  /\ fanout.st = "returned" => ResultIds = FulfilledIds

\* C18 witness: one of three sources rejected, the two others answered with
\* different events, and the call returned both
C18_Witness ==
  /\ fanout.st = "returned"
  /\ fanout.urls = 2
  /\ fanout.subs[1].st = "rejected"
  /\ fanout.subs[2].value = Tagged(<< 1 >>, 2)
  /\ fanout.subs[3].value = Tagged(<< 2 >>, 3)
  /\ ResultIds = {1, 2}

\* C19: the result of queryWithNip65Fanout holds every id a fulfilled
\* sub-query answered with exactly once and no other id, and the copy of an
\* id is the one of the last sub-query, in the order of the sources, that
\* answered with it.
C19_EachIdOnceLatestCopy ==
  fanout.st = "returned" =>
    /\ NoDuplicates([k \in 1..Len(fanout.result) |-> fanout.result[k].id])
    /\ ResultIds = FulfilledIds
    /\ \A k \in 1..Len(fanout.result) :
         LET r == fanout.result[k]
             has == {i \in SubsIn("fulfilled") :
                       \E j \in 1..Len(fanout.subs[i].value) :
                         fanout.subs[i].value[j].id = r.id}
         IN r.from \in has /\ \A i \in has : i <= r.from

\* C19 witness: the pool and a relay answered with the same id, and the copy
\* of the relay was returned
C19_Witness ==
  /\ fanout.st = "returned"
  /\ fanout.subs[1].value = Tagged(<< 1, 2 >>, 1)
  /\ fanout.urls >= 1
  /\ fanout.subs[2].value = Tagged(<< 2 >>, 2)
  /\ fanout.result = << [id |-> 1, from |-> 1], [id |-> 2, from |-> 2] >>

\* C20: a call holds one sub-query for the pool and one entry per relay url,
\* every query it issued is bound to the signal of the call, and it has
\* returned only when no sub-query is pending any more.
C20_ReturnsAfterAllSettled ==
  fanout.st # "idle" =>
    /\ Len(fanout.subs) = 1 + fanout.urls
    /\ fanout.subs[1].issued
    /\ \A i \in DOMAIN fanout.subs :
         fanout.subs[i].issued => fanout.subs[i].signal = fanout.signal
    /\ fanout.st = "returned" => SubsIn("pending") = {}

\* C20 witness: a call with two relays returned after the pool had answered
\* and both relay queries, issued with the signal of the call, had settled
C20_Witness ==
  /\ fanout.st = "returned"
  /\ fanout.urls = 2
  /\ fanout.signal = "otherSignal"
  /\ \A i \in 1..3 : fanout.subs[i].issued /\ fanout.subs[i].signal = "otherSignal"
  /\ fanout.subs[1].value # << >>
  /\ fanout.subs[2].st = "rejected"
  /\ fanout.subs[3].st = "fulfilled"

\* the window of a time range holds e: both bounds are inclusive, and an
\* until of 0 is no bound
InWindow(e, tr) ==
  LET r == getDateRange(tr)
  IN /\ created_at(e) >= r.since
     /\ (r.until = 0 \/ created_at(e) <= r.until)

\* the view holds exactly the cached receipts the window of the render holds
ViewIsWindowFilter ==
  \A e \in Elems(state.allReceiptsCache) :
    e \in Elems(state.receipts) <=> InWindow(e, timeRange)

\* C21: after a change of the window and after every merge, a cached receipt
\* is in the view exactly when its created_at is at least the since and at
\* most the until of the window of the render.
C21_ViewIsWindowFilter ==
  (last.op \in {"range", "resolve"}) => ViewIsWindowFilter

\* C21, the change of the window alone: the view it computes is the filter
\* of the cache by the new window.
C21_ViewOnWindowSwitch ==
  last.op = "range" => ViewIsWindowFilter

\* C22: in every state the cache entry of the subject of the render holds
\* every receipt of the view.
C22_CacheHoldsView ==
  Elems(state.receipts) \subseteq Elems(userZapCache[pubkey])

\* C23: clearZapCaches leaves every cache entry empty, and afterwards no
\* cache entry holds a receipt obtained before the clear that no query has
\* returned since.
C23_ClearedRecordsStayOut ==
  /\ last.op = "clear" => userZapCache = EmptyCache
  /\ \A s \in Subjects : Elems(userZapCache[s]) \cap preClear = {}

\* C23, the clear itself: it leaves every cache entry empty.
C23_ClearEmptiesCache ==
  last.op = "clear" => userZapCache = EmptyCache

\* C24: while there is no subject, or the custom range lacks a date, no call
\* of loadMoreZaps, manual or automatic, starts a fetch cycle.
C24_NoQueryWithoutConfiguration ==
  [][(pubkey = NoSubject \/ ~shouldQueryData) => cycles' = cycles]_vars

\* C24, the subject alone: while there is no subject no call of loadMoreZaps
\* starts a fetch cycle and no timer is set.
C24_NoQueryWithoutSubject ==
  [][pubkey = NoSubject
       => /\ cycles' = cycles
          /\ fetches' = {} /\ refTimer' = NoTimer /\ orphans' = {}]_vars

\* C25: a cycle that fails leaves error set and isLoading false, and leaves
\* receipts, every cache entry, currentBatch, relayLimit and isComplete as
\* they were.
C25_FailureKeepsPreviousResult ==
  [][(last'.op = "load" /\ last'.threw)
       => /\ state'.error
          /\ ~state'.isLoading
          /\ ~isLoadingRef'
          /\ state'.receipts = state.receipts
          /\ state'.allReceiptsCache = state.allReceiptsCache
          /\ userZapCache' = userZapCache
          /\ state'.currentBatch = state.currentBatch
          /\ state'.relayLimit = state.relayLimit
          /\ state'.isComplete = state.isComplete]_vars

\* C25 witness: a cycle failed on a state that showed receipts and held a
\* detected limit, and all of it is still there
C25_Witness ==
  /\ last.op = "load" /\ last.threw
  /\ state.error /\ ~state.isLoading
  /\ state.receipts # << >>
  /\ state.currentBatch > 0
  /\ state.relayLimit # 0
  /\ userZapCache[pubkey] # << >>

\* newest first
IsDescending(s) ==
  \A i \in 1..(Len(s) - 1) : created_at(s[i]) >= created_at(s[i + 1])

\* C26: in every state receipts, allReceiptsCache and the cache entry of
\* every subject are ordered by created_at, newest first.
C26_NewestFirst ==
  /\ IsDescending(state.receipts)
  /\ IsDescending(state.allReceiptsCache)
  /\ \A s \in Subjects : IsDescending(userZapCache[s])

\* C26 witness: a batch younger than what the hook held was merged in front
\* of it
C26_Witness ==
  /\ Completed
  /\ last.events = {"a1"}
  /\ state.allReceiptsCache = << "a1", "a2" >>
  /\ userZapCache["A"] = << "a1", "a2" >>
  /\ state.receipts = << "a1", "a2" >>

\* the last step of the worker was a processPost
Processed == worker.last.op = "process"
\* a relay acknowledged the event of that processPost with ["OK", id, true]
Acknowledged ==
  \E i \in DOMAIN worker.last.outcomes : worker.last.outcomes[i] = "ok"
AllAcknowledged ==
  \A i \in DOMAIN worker.last.outcomes : worker.last.outcomes[i] = "ok"
\* a publishToRelay call of that processPost resolved
SomeCallResolved ==
  \E i \in DOMAIN worker.last.outcomes :
    publishToRelay(worker.last.outcomes[i]) = "resolved"

\* C27: a processPost leaves the row published when at least one relay
\* accepted the event, with a partial-failure message when not all of them
\* did, and failed otherwise: when every relay rejected or errored, when
\* there is no relay, and when the payload is missing or cannot be parsed.
C27_PublishedIffAccepted ==
  Processed =>
    LET row == worker.rows[worker.last.post]
    IN /\ row.status = (IF Acknowledged THEN "published" ELSE "failed")
       /\ row.status = "published" =>
            (row.error_message = "Partially published" <=> ~AllAcknowledged)

\* C27, on what publishToRelay reports: a processPost leaves the row
\* published when at least one publishToRelay call resolved, and failed
\* otherwise.
C27_PublishedIffSomeCallResolved ==
  Processed =>
    worker.rows[worker.last.post].status =
      (IF SomeCallResolved THEN "published" ELSE "failed")

\* the rows that were pending and due when the last run made its query
DueAtQuery ==
  {p \in Posts : /\ worker.last.rows[p].status = "pending"
                 /\ PostTable[p].scheduled_for <= worker.last.now}

\* C28: a run selects exactly the rows that are pending and due, and a row
\* it processes is pending.
C28_SelectsAllDueRows ==
  /\ (worker.last.op = "select" /\ ~worker.last.fetchError)
       => Elems(worker.runs[worker.last.run].selected) = DueAtQuery
  /\ Processed => worker.last.before = "pending"

\* C28, the query alone: what a run selects was pending and due at its
\* query, and it is every such row when these are at most BATCH_SIZE.
C28_SelectsOnlyDueRows ==
  (worker.last.op = "select" /\ ~worker.last.fetchError)
    => LET selected == Elems(worker.runs[worker.last.run].selected)
           Total(S) == RowsBefore(OrderByScheduledFor(S), Cardinality(S) + 1)
       IN /\ selected \subseteq DueAtQuery
          /\ Total(DueAtQuery) <= BATCH_SIZE => selected = DueAtQuery
          /\ Total(selected) <= BATCH_SIZE


\* ------------------------------------------------------------------ C29
\* the ids a lookup has requests in flight for
AskedBy(run) == UNION {Elems(run.chunks[c]) : c \in run.inFlight}

\* every chunk of every lookup holds at most the chunk size of its kind
ChunksWithinSize ==
  \A l \in 1..MaxLookups :
    \A c \in DOMAIN lookup.runs[l].chunks :
      IdsIn(lookup.runs[l].kind, lookup.runs[l].chunks[c]) <= chunkSize(lookup.runs[l].kind)

RECURSIVE InFlightUpTo(_)
\* the chunk requests in flight of the lookups 1..l
InFlightUpTo(l) ==
  IF l = 0 THEN 0 ELSE InFlightUpTo(l - 1) + Cardinality(lookup.runs[l].inFlight)

\* C29 (as stated): no request of a lookup asks for an id that the cache
\* holds when the request goes out, every chunk holds at most 150 content
\* ids / 100 actor ids, and at no time are more than 3 chunk requests in
\* flight.
C29_CachedIdNeverRequested ==
  /\ lookup.last.op = "dispatch" => lookup.last.cached = {}
  /\ ChunksWithinSize
  /\ InFlightUpTo(MaxLookups) <= maxConcurrent

\* C29 (amended): a lookup requests no id that the cache held when the
\* lookup started, every chunk holds at most 150 content ids / 100 actor
\* ids, and no single lookup has more than 3 chunk requests in flight.
C29_LookupSkipsWhatWasCached ==
  /\ \A l \in 1..MaxLookups :
       /\ AskedBy(lookup.runs[l]) \cap lookup.runs[l].eventMap = {}
       /\ Cardinality(lookup.runs[l].inFlight) <= maxConcurrent
  /\ ChunksWithinSize

\* a lookup that found an id cached when it started has three chunk
\* requests in flight for the others
C29_Witness ==
  \E l \in 1..MaxLookups :
    /\ lookup.runs[l].st = "running"
    /\ lookup.runs[l].eventMap # {}
    /\ Cardinality(lookup.runs[l].inFlight) = maxConcurrent


\* ------------------------------------------------------------------ C30
\* every cache entry holds receipts of its subject only, and the view holds
\* receipts of the active subject only
OnlyOwnRecords ==
  /\ \A s \in Subjects : \A e \in Elems(userZapCache[s]) : P(e) = s
  /\ \A e \in Elems(state.receipts) : P(e) = pubkey

\* a fetch started for another subject than the active one resolves, and
\* the loading state and the cache stay as they were
StaleFetchChangesNothing ==
  (last'.op = "resolve" /\ last'.f.pubkey # pubkey)
    => /\ state' = state
       /\ userZapCache' = userZapCache

\* C30: the cache entry and the view of a subject only ever hold records
\* returned for that subject, and a fetch started for subject A that resolves
\* after the active subject has become B changes neither the loading state
\* of B nor the cache entry of A.
C30_StaleFetchIsInert ==
  []OnlyOwnRecords /\ [][StaleFetchChangesNothing]_vars

\* ------------------------------------------------------------------ C31
\* the receipts the relays hold for subject s inside the window of tr
HeldInWindow(s, tr) == {e \in Events : P(e) = s /\ InWindow(e, tr)}

\* the last task was a cycle of the active subject and window that ended
\* with isComplete true
CompletedWindow ==
  /\ Completed
  /\ TheCycle.pubkey = pubkey
  /\ TheCycle.tr = timeRange
  /\ state.isComplete

\* C31: when a cycle sets isComplete for a subject and a window, the cache
\* entry of the subject holds every receipt that the relays hold for the
\* subject inside the window.
C31_CompleteMeansAllLoaded ==
  CompletedWindow
    => HeldInWindow(pubkey, timeRange) \subseteq Elems(userZapCache[pubkey])

\* the same for cycles in which some sub-query fulfilled and receipts came back
C31_CompleteAfterAnswerMeansAllLoaded ==
  (CompletedWindow /\ ~last.rejected /\ last.events # {})
    => HeldInWindow(pubkey, timeRange) \subseteq Elems(userZapCache[pubkey])

\* ------------------------------------------------------------------ C32
\* C32: no fetch cycle starts while the loading state has isComplete true,
\* whatever calls loadMoreZaps: a click, a timer set before the loading
\* completed, or the timer of restartAutoLoad.
C32_NoQueryWhenComplete ==
  [][cycles' # cycles => ~state.isComplete]_vars

\* a timer that outlived the completion fires: automatic loading is enabled,
\* no cycle is in flight, the counters are below their thresholds, and the
\* call returns without a fetch
C32_Witness ==
  /\ last.op = "load"
  /\ last.auto
  /\ ~last.started
  /\ state.isComplete
  /\ ~isLoadingRef
  /\ state.autoLoadEnabled
  /\ state.consecutiveFailures < MAX_CONSECUTIVE_FAILURES
  /\ state.consecutiveZeroResults < maxConsecutiveZeroResults

\* ------------------------------------------------------------------ C33
\* C33: autoLoadEnabled goes from false to true only in toggleAutoLoad, in
\* restartAutoLoad or on a change of the subject; no fetch cycle, successful
\* or failed, enables automatic loading again.
C33_OnlyControlsEnable ==
  [][(~state.autoLoadEnabled /\ state'.autoLoadEnabled)
       => last'.op \in {"toggle", "restart", "subject"}]_vars

\* the same for the cycles that succeed
C33_SuccessNeverEnables ==
  [][(~state.autoLoadEnabled /\ last'.op = "resolve") => ~state'.autoLoadEnabled]_vars

\* ------------------------------------------------------------------ C34
\* a fetch cycle of the active subject is in flight and not aborted
InFlightForSubject == \E f \in fetches : f.pubkey = pubkey /\ ~f.aborted

\* loadingState.canLoadMore of useZapAnalytics
canLoadMore == ~state.isComplete /\ ~state.isLoading

\* C34 (safety): while a fetch cycle of the active subject is in flight,
\* isLoading is true and canLoadMore is false.
C34_LoadingWhileInFlight ==
  InFlightForSubject => (state.isLoading /\ ~canLoadMore)

\* every cycle that starts ends: once no cycle is in flight any more,
\* isLoading is false and the in-flight guard is released
C34_NotLoadingWhenNoneInFlight ==
  fetches = {} => (~state.isLoading /\ ~isLoadingRef)

\* ------------------------------------------------------------------ C35
\* C35: once isComplete is true it stays true until the window or the
\* subject changes: no fetch result, no failure, no toggleAutoLoad and no
\* restartAutoLoad sets it back to false.
C35_CompleteIsStable ==
  [][(state.isComplete /\ pubkey' = pubkey /\ timeRange' = timeRange)
       => state'.isComplete]_vars

\* the same for the tasks that are no fetch result: a call of loadMoreZaps
\* (failing or not), toggleAutoLoad, restartAutoLoad, clearZapCaches
C35_OnlyResultsUncomplete ==
  [][(state.isComplete /\ last'.op \in {"load", "toggle", "restart", "clear"})
       => state'.isComplete]_vars

\* ------------------------------------------------------------------ C36
\* a detected relay limit lies between the smallest and the largest batch size
LimitInRange ==
  state.relayLimit # 0
    => (MIN_BATCH_SIZE <= state.relayLimit /\ state.relayLimit <= MAX_BATCH_SIZE)

\* while the subject stays, a detected limit stays detected and does not grow
LimitNeverGrows ==
  (state.relayLimit # 0 /\ pubkey' = pubkey)
    => (state'.relayLimit # 0 /\ state'.relayLimit <= state.relayLimit)

C37_TotalIsViewLength ==
  state.totalFetched = Count(state.receipts)

\* a merge after a window switch, and a view that holds receipts
C37_Witness ==
  /\ Completed
  /\ switches > 0
  /\ TheCycle.tr # timeRange
  /\ Count(state.receipts) > 0

\* ------------------------------------------------------------------ C38
\* a status changes only from pending, to published or to failed
StatusOnlyLeavesPending ==
  \A p \in Posts :
    worker'.rows[p].status # worker.rows[p].status
      => /\ worker.rows[p].status = "pending"
         /\ worker'.rows[p].status \in {"published", "failed"}

\* the row a processPost works on is pending when the processPost starts
ProcessedRowWasPending ==
  (worker' # worker /\ worker'.last.op = "process")
    => worker.rows[worker'.last.post].status = "pending"

\* the rows a query selects are pending
SelectedRowsArePending ==
  (worker' # worker /\ worker'.last.op = "select")
    => \A p \in Elems(worker'.runs[worker'.last.run].selected) :
         worker.rows[p].status = "pending"

\* C38: a row goes from pending to published or from pending to failed and
\* nowhere else: a published or failed row is never selected and never
\* transmitted again, and no status returns to pending.
C38_RowsOnlyLeavePending ==
  [][StatusOnlyLeavesPending /\ ProcessedRowWasPending /\ SelectedRowsArePending]_vars

\* the query and the direction of the updates alone: no query selects a row
\* that is published or failed, and no status returns to pending
C38_NeverSelectedNeverPendingAgain ==
  [][/\ SelectedRowsArePending
     /\ \A p \in Posts : worker'.rows[p].status = "pending"
                           => worker.rows[p].status = "pending"]_vars

\* ------------------------------------------------------------------ C39
\* the calls of publishToRelay settle at most once
SettlesOnce == \A i \in DOMAIN publish : publish[i].settles <= 1

\* C39: a call of publishToRelay reports success only if its relay sent a
\* positive OK for the event; a call whose connection closes, errors or
\* times out before that reports a failure; and every call settles once.
C39_SuccessOnlyIfAcknowledged ==
  /\ \A i \in DOMAIN publish : publish[i].result = "resolved" => publish[i].acked
  /\ SettlesOnce

\* C39, on what the code takes for an acknowledgement: a call reports
\* success only after an OK message with a true flag, whatever id it names,
\* or after a close with code 1000; it reports a failure after an OK message
\* with a false flag, an error, another close code or the timeout, whichever
\* comes first; and every call settles once.
C39_FirstEventDecides ==
  /\ \A i \in DOMAIN publish :
       /\ publish[i].result = "resolved"
            <=> publish[i].first \in {"okTrue", "okTrueOtherId", "close1000"}
       /\ publish[i].result = "rejected"
            <=> publish[i].first \in {"okFalse", "error", "closeOther", "timeout"}
       /\ publish[i].result = "pending" <=> publish[i].settles = 0
  /\ SettlesOnce

====
